---------------------------- MODULE Spec2Model ----------------------------
(***************************************************************************)
(* Model of package ssdjwtauth (verifier.go): the Verifier's key store,    *)
(* SetKeys rotation, the KeyFunc lookup under the mutex, VerifyToken and   *)
(* the HTTP middleware.                                                    *)
(*                                                                         *)
(* Strings that the code takes apart are modelled as sequences of chunks:  *)
(* the chunk SEP is the text "Bearer ", a chunk [t |-> "jwt", ...] is the  *)
(* compact serialisation of a signed token, [t |-> "junk"] is any other    *)
(* non-empty text.  Times are whole minutes.                               *)
(***************************************************************************)
EXTENDS Integers, Sequences, FiniteSets, TLC

\* ------------------------------------------------------------------ bounds
NumProcs == 2
MaxCalls == 3
SeqCalls == 1
TwoCalls == 2
LiveCalls == 2
T0 == 20

Procs == 1..NumProcs
Verifiers == {"v1", "v2"}

\* ------------------------------------------------------- program constants
Leeway == 5
StatusUnauthorized == 401
ssdContextKey == 0
ssdTokenContextKey == 1
ssdTokenAudience == "ssd-audience"
ssdTokenIssuer == "ssd-issuer"
SigningMethodPS256 == "PS256"

\* jwt.WithLeeway, WithAudience, WithExpirationRequired, WithIssuedAt,
\* WithIssuer, WithValidMethods: the parser options every verifier starts from.
OptionsBut(field, value) ==
    [[leeway       |-> Leeway,
      expectedAud  |-> ssdTokenAudience,
      requireExp   |-> TRUE,
      verifyIat    |-> TRUE,
      expectedIss  |-> ssdTokenIssuer,
      validMethods |-> {SigningMethodPS256},
      timeFunc     |-> <<>>] EXCEPT ![field] = value]
defaultParseOptionsNoLeeway == OptionsBut("leeway", 0)
defaultParseOptionsNoIssuedAt == OptionsBut("verifyIat", FALSE)
defaultParseOptionsNoMethods == OptionsBut("validMethods", {})
defaultParseOptions ==
    [leeway       |-> Leeway,
     expectedAud  |-> ssdTokenAudience,
     requireExp   |-> TRUE,
     verifyIat    |-> TRUE,
     expectedIss  |-> ssdTokenIssuer,
     validMethods |-> {SigningMethodPS256},
     timeFunc     |-> <<>>]

\* ------------------------------------------------------------- key material
Kids == {"k1", "k2"}
PublicKeys == {"pubA", "pubB"}
Signers == {"privA", "privB"}
PublicOf(signer) == IF signer = "privA" THEN "pubA" ELSE "pubB"
PEMs == {"pemA", "pemB", "foo"}

NoErr == [kind |-> "nil", msg |-> "", name |-> "", causes |-> {}]
Err(kind, msg, name) == [kind |-> kind, msg |-> msg, name |-> name, causes |-> {}]

\* jwt.ParseRSAPublicKeyFromPEM: the RSA public key a PEM block encodes, or an
\* error for bytes that are no PEM-encoded RSA public key.
ParseRSAPublicKeyFromPEM(pem) ==
    CASE pem = "pemA" -> [key |-> "pubA", err |-> NoErr]
      [] pem = "pemB" -> [key |-> "pubB", err |-> NoErr]
      [] OTHER        -> [key |-> "", err |-> Err("pem", "invalid key", "")]

\* The key sets a caller may pass: every map from some kids to PEM bytes.
PemKeySets == UNION {[S -> PEMs] : S \in SUBSET Kids}
BadEntries(pemkeys) ==
    {name \in DOMAIN pemkeys : ParseRSAPublicKeyFromPEM(pemkeys[name]).err # NoErr}

\* parseKeys: ranges over the map in Go's unspecified iteration order and
\* returns at the first entry that does not parse, so with several bad entries
\* any of them may be the one named.  The set of possible results.
parseKeysBroken(pemkeys) ==
    {[keys |-> [name \in DOMAIN pemkeys \ BadEntries(pemkeys) |->
                    ParseRSAPublicKeyFromPEM(pemkeys[name]).key],
      err  |-> NoErr]}

parseKeys(pemkeys) ==
    IF BadEntries(pemkeys) = {}
    THEN {[keys |-> [name \in DOMAIN pemkeys |->
                        ParseRSAPublicKeyFromPEM(pemkeys[name]).key],
           err  |-> NoErr]}
    ELSE {[keys |-> <<>>,
           err  |-> Err("errorString", "unable to parse pem for keyID", name)]
            : name \in BadEntries(pemkeys)}


\* ------------------------------------------------------------------ tokens
\* A signed token: header (alg, kid), payload (the claims) and the private key
\* that produced the signature for the declared algorithm.  Header["kid"] is
\* an interface value: absent, a number (as in the test's kid: 5) or a string.
NoKid == [typ |-> "absent", val |-> ""]
NonStringKid == [typ |-> "int", val |-> "5"]
StringKid(k) == [typ |-> "string", val |-> k]
HeaderKids == {NoKid, NonStringKid} \cup {StringKid(k) : k \in Kids}
Algs == {"PS256", "HS256", "none", "XX999", ""}
RegisteredAlgs == {"PS256", "HS256", "none"}

BaseClaims ==
    [iss |-> ssdTokenIssuer, aud |-> {ssdTokenAudience}, sub |-> "user",
     exp |-> <<T0 + 10>>, iat |-> <<T0 - 1>>, nbf |-> <<>>]
Jwt(alg, kid, signer, claims) ==
    [t |-> "jwt", alg |-> alg, kid |-> kid, signer |-> signer, claims |-> claims]

ExpValues == {<<>>} \cup {<<T0 + d>> : d \in {-10, -6, -5, -4, -3, 10}}
IatValues == {<<>>} \cup {<<T0 + d>> : d \in {-1, 5, 6, 7, 10}}
NbfValues == {<<>>, <<T0 - 1>>, <<T0 + 10>>}

\* Tokens whose claims are the base claims: they differ in header and signer.
HeaderTokens ==
    {Jwt("PS256", kid, s, BaseClaims) : kid \in HeaderKids, s \in Signers}
      \cup {Jwt(a, kid, "privA", BaseClaims) : a \in Algs, kid \in {NoKid, StringKid("k1")}}
\* Tokens for k1 signed by privA under PS256 whose claims vary.
ClaimTokens ==
    {Jwt("PS256", StringKid("k1"), "privA", [BaseClaims EXCEPT !.exp = e, !.iat = i])
        : e \in ExpValues, i \in IatValues}
      \cup {Jwt("PS256", StringKid("k1"), "privA", [BaseClaims EXCEPT !.nbf = n]) : n \in NbfValues}
      \cup {Jwt("PS256", StringKid("k1"), "privA", [BaseClaims EXCEPT !.iss = x])
              : x \in {"", "other-issuer"}}
      \cup {Jwt("PS256", StringKid("k1"), "privA", [BaseClaims EXCEPT !.aud = x])
              : x \in {{}, {"other"}, {"other", ssdTokenAudience}}}
AllTokens == HeaderTokens \cup ClaimTokens

\* ----------------------------------------------------------------- strings
SEP == [t |-> "Bearer "]
JUNK == [t |-> "junk"]

RECURSIVE Split(_, _)
\* strings.Split(s, sep): the pieces of s between the occurrences of sep.
Split(s, sep) ==
    IF \A i \in 1..Len(s) : s[i] # sep
    THEN <<s>>
    ELSE LET i == CHOOSE j \in 1..Len(s) :
                     s[j] = sep /\ \A k \in 1..(j - 1) : s[k] # sep
         IN  <<SubSeq(s, 1, i - 1)>> \o Split(SubSeq(s, i + 1, Len(s)), sep)

\* A request: the values of the two headers, "" (the empty sequence) when absent.
Request(auth, xauth) == [Authorization |-> auth, XOpsMxAuth |-> xauth]
HeaderGet(r, name) == r[name]

Panic == <<[t |-> "panic: index out of range"]>>
\* tokenFromHeaders: Authorization, else X-OpsMx-Auth; "" when both are empty;
\* otherwise element 1 of the split at "Bearer ", which does not exist when
\* the value holds no "Bearer ": the function panics.
tokenFromHeaders(r) ==
    LET auth0 == HeaderGet(r, "Authorization")
        auth  == IF auth0 = <<>> THEN HeaderGet(r, "XOpsMxAuth") ELSE auth0
        splitToken == Split(auth, SEP)
    IN  IF auth = <<>> THEN <<>>
        ELSE IF Len(splitToken) < 2 THEN Panic
        ELSE splitToken[2]

\* ------------------------------------------------ jwt.Parser.ParseWithClaims
\* Parser.ParseUnverified: a token string decodes when it is the serialisation
\* of one token; its alg must name a registered signing method.
ParseUnverified(tokenString) ==
    IF ~(Len(tokenString) = 1 /\ tokenString[1].t = "jwt")
    THEN [token |-> <<>>, err |-> Err("ErrTokenMalformed", "token is malformed", "")]
    ELSE IF tokenString[1].alg = ""
    THEN [token |-> <<>>,
          err |-> Err("ErrTokenUnverifiable", "signing method (alg) is unspecified", "")]
    ELSE IF tokenString[1].alg \notin RegisteredAlgs
    THEN [token |-> <<>>,
          err |-> Err("ErrTokenUnverifiable", "signing method (alg) is unavailable", "")]
    ELSE [token |-> tokenString, err |-> NoErr]

\* The check of WithValidMethods, made before the Keyfunc is called.
\* No list of valid methods (the option not given) means no check.
ValidMethod(opts, token) ==
    opts.validMethods = {} \/ token.alg \in opts.validMethods

\* SigningMethodRSAPSS.Verify: the signature verifies under the public key
\* that belongs to the private key that signed.
VerifySignatureAny(token, key) == TRUE
VerifySignature(token, key) == PublicOf(token.signer) = key

\* Validator.Validate with the verifier's options at time now: the set of
\* failed checks (empty when the claims are valid).
Validate(opts, claims, now) ==
    (IF claims.exp = <<>>
     THEN (IF opts.requireExp THEN {"exp claim is required"} ELSE {})
     ELSE IF ~(now < claims.exp[1] + opts.leeway) THEN {"ErrTokenExpired"} ELSE {})
    \cup (IF claims.nbf # <<>> /\ now < claims.nbf[1] - opts.leeway
          THEN {"ErrTokenNotValidYet"} ELSE {})
    \cup (IF opts.verifyIat /\ claims.iat # <<>> /\ now < claims.iat[1] - opts.leeway
          THEN {"ErrTokenUsedBeforeIssued"} ELSE {})
    \cup (IF opts.expectedAud # "" /\ opts.expectedAud \notin claims.aud
          THEN {"ErrTokenInvalidAudience"} ELSE {})
    \cup (IF opts.expectedIss # "" /\ claims.iss # opts.expectedIss
          THEN {"ErrTokenInvalidIssuer"} ELSE {})


\* ------------------------------------------------------------------- state
VARIABLES
    packageOptions, \* the package variable defaultParseOptions
    constructed,   \* the verifiers NewVerifier has returned
    Keys,          \* Verifier.Keys of each verifier: kid -> public key
    parseOptions,  \* Verifier.parseOptions of each verifier
    mu,            \* the embedded sync.Mutex: the holder, 0 when unlocked
    newCall,       \* the last NewVerifier call for each verifier: argument and error
    pc,            \* where each goroutine is in its call
    call,          \* the call a goroutine is in: operation, verifier, argument
    loc,           \* the locals and results of that call
    ncalls,        \* calls started so far
    hist,          \* history: the key sets installed in each verifier, in order
    returned       \* history: the last installed set whose call has returned

vars == <<packageOptions, constructed, Keys, parseOptions, mu, newCall, pc, call, loc, ncalls,
          hist, returned>>

NoCall == [op |-> "none", v |-> "", arg |-> <<>>]
\* What the handler did with its ResponseWriter and with next: the status and
\* body written, the headers set, the calls of next and the context passed.
NoResp ==
    [status |-> 0, body |-> "", headers |-> {}, next |-> 0, ctx |-> <<>>,
     panic |-> FALSE]
NoLoc ==
    [tokenStr |-> <<>>, token |-> <<>>, keys |-> <<>>, key |-> "",
     kerr |-> NoErr, claims |-> <<>>, err |-> NoErr, resp |-> NoResp,
     now |-> <<>>, looked |-> FALSE, sigChecked |-> FALSE,
     obsKeys |-> <<>>, startVer |-> 0, obsVer |-> 0, down |-> <<>>]

Init ==
    /\ packageOptions = defaultParseOptions
    /\ constructed = {}
    /\ Keys = [v \in Verifiers |-> <<>>]
    /\ parseOptions = [v \in Verifiers |-> defaultParseOptions]
    /\ mu = [v \in Verifiers |-> 0]
    /\ newCall = [v \in Verifiers |-> [pemkeys |-> <<>>, timeFunc |-> <<>>, err |-> NoErr]]
    /\ pc = [p \in Procs |-> "idle"]
    /\ call = [p \in Procs |-> NoCall]
    /\ loc = [p \in Procs |-> NoLoc]
    /\ ncalls = 0
    /\ hist = [v \in Verifiers |-> <<>>]
    /\ returned = [v \in Verifiers |-> 0]

\* ------------------------------------------------------------- NewVerifier
\* The options of a new verifier: a new slice with the elements of
\* defaultParseOptions, to which the time source is appended if one is given.
\* opts is the new verifier's slice, defaults the package's afterwards.
NewOptionsAliased(defaults, timeFunc) ==
    IF timeFunc = <<>> THEN [opts |-> defaults, defaults |-> defaults]
    ELSE [opts     |-> [defaults EXCEPT !.timeFunc = timeFunc],
          defaults |-> [defaults EXCEPT !.timeFunc = timeFunc]]
NewOptions(defaults, timeFunc) ==
    [opts     |-> IF timeFunc = <<>> THEN defaults
                  ELSE [defaults EXCEPT !.timeFunc = timeFunc],
     defaults |-> defaults]

\* NewVerifier(pemkeys, timeFunc): nil and the parse error, or a verifier
\* holding the parsed keys.
NewVerifier(v, pemkeys, timeFunc) ==
    /\ v \notin constructed
    /\ \E r \in parseKeys(pemkeys) :
         /\ newCall' = [newCall EXCEPT ![v] =
               [pemkeys |-> pemkeys, timeFunc |-> timeFunc, err |-> r.err]]
         /\ IF r.err # NoErr
            THEN UNCHANGED <<packageOptions, constructed, Keys, parseOptions, hist, returned>>
            ELSE /\ constructed' = constructed \cup {v}
                 /\ Keys' = [Keys EXCEPT ![v] = r.keys]
                 /\ parseOptions' = [parseOptions EXCEPT ![v] =
                                        NewOptions(packageOptions, timeFunc).opts]
                 /\ packageOptions' = NewOptions(packageOptions, timeFunc).defaults
                 /\ hist' = [hist EXCEPT ![v] = <<pemkeys>>]
                 /\ returned' = [returned EXCEPT ![v] = 1]
    /\ UNCHANGED <<mu, pc, call, loc, ncalls>>

\* ----------------------------------------------------------------- SetKeys
\* A goroutine starts a call of operation op on verifier v.
Begin(p, v, op, arg, max) ==
    /\ pc[p] = "idle"
    /\ v \in constructed
    /\ ncalls < max
    /\ ncalls' = ncalls + 1
    /\ call' = [call EXCEPT ![p] = [op |-> op, v |-> v, arg |-> arg]]

\* SetKeys up to the Lock: parseKeys, and the return of its error.
SetKeysCall(p, v, pemkeys, max) ==
    /\ Begin(p, v, "SetKeys", pemkeys, max)
    /\ \E r \in parseKeys(pemkeys) :
         IF r.err # NoErr
         THEN /\ pc' = [pc EXCEPT ![p] = "done"]
              /\ loc' = [loc EXCEPT ![p] = [NoLoc EXCEPT !.err = r.err]]
         ELSE /\ pc' = [pc EXCEPT ![p] = "sk_lock"]
              /\ loc' = [loc EXCEPT ![p] = [NoLoc EXCEPT !.keys = r.keys]]
    /\ UNCHANGED <<packageOptions, constructed, Keys, parseOptions, mu, newCall, hist, returned>>

\* v.Lock() in SetKeys.
SetKeysLock(p) ==
    /\ pc[p] = "sk_lock"
    /\ mu[call[p].v] = 0
    /\ mu' = [mu EXCEPT ![call[p].v] = p]
    /\ pc' = [pc EXCEPT ![p] = "sk_assign"]
    /\ UNCHANGED <<packageOptions, constructed, Keys, parseOptions, newCall, call, loc, ncalls,
                   hist, returned>>

\* The value v.Keys holds after the assignment of SetKeys.
AssignedMerged(old, keys) ==
    [k \in DOMAIN old \cup DOMAIN keys |-> IF k \in DOMAIN keys THEN keys[k] ELSE old[k]]
AssignedNothing(old, keys) == old
Assigned(old, keys) == keys

\* v.Keys = keys, then the deferred Unlock.
SetKeysAssign(p) ==
    /\ pc[p] = "sk_assign"
    /\ mu[call[p].v] = p
    /\ LET v == call[p].v IN
         /\ Keys' = [Keys EXCEPT ![v] = Assigned(Keys[v], loc[p].keys)]
         /\ hist' = [hist EXCEPT ![v] = Append(@, call[p].arg)]
         /\ loc' = [loc EXCEPT ![p].obsVer = Len(hist[v]) + 1]
         /\ mu' = [mu EXCEPT ![v] = 0]
    /\ pc' = [pc EXCEPT ![p] = "done"]
    /\ UNCHANGED <<packageOptions, constructed, parseOptions, newCall, call, ncalls, returned>>

\* ------------------------------------------------------ MiddlewareFunc tail
\* A context maps keys to values of interface type: each value carries its
\* dynamic type.  Keys of other packages are of other types and never equal the
\* two keys of this package; ctx.Value of a key that is not set is nil.
Nil == [typ |-> "nil", val |-> <<>>]
ClaimsValue(claims) == [typ |-> "*SsdJwtClaims", val |-> claims]
StringValue(str) == [typ |-> "string", val |-> str]
Value(ctx, key) == IF key \in DOMAIN ctx THEN ctx[key] ELSE Nil

\* contextWithToken: ctx with the claims and the raw token under the two keys.
contextWithTokenSwapped(ctx, claims, token) ==
    (ssdContextKey :> StringValue(token)) @@ (ssdTokenContextKey :> ClaimsValue(claims)) @@ ctx
contextWithToken(ctx, claims, token) ==
    (ssdTokenContextKey :> StringValue(token)) @@ (ssdContextKey :> ClaimsValue(claims)) @@ ctx

\* SSDClaimsFromContext, SSDTokenFromContext: the value under the key, asserted
\* to be of the expected type; the zero value and false when it is not.
SSDClaimsFromContext(ctx) ==
    LET v == Value(ctx, ssdContextKey)
    IN  IF v.typ = "*SsdJwtClaims" THEN [v |-> <<v.val>>, ok |-> TRUE]
        ELSE [v |-> <<>>, ok |-> FALSE]
SSDTokenFromContext(ctx) ==
    LET v == Value(ctx, ssdTokenContextKey)
    IN  IF v.typ = "string" THEN [v |-> v.val, ok |-> TRUE]
        ELSE [v |-> <<>>, ok |-> FALSE]

\* What a handler sees that calls both accessors on a context.
Accessors(ctx) ==
    [claims |-> SSDClaimsFromContext(ctx), token |-> SSDTokenFromContext(ctx)]

\* What the handler does with VerifyToken's result: 401 and "Unauthorized",
\* or one call of next with the enriched context.
MiddlewareRespondLeak(claims, err, tokenStr) ==
    IF err # NoErr
    THEN [NoResp EXCEPT !.status = StatusUnauthorized, !.body = err.msg]
    ELSE [NoResp EXCEPT !.next = 1,
                        !.ctx = contextWithToken(<<>>, claims[1], tokenStr)]
MiddlewareRespondNoReturn(claims, err, tokenStr) ==
    IF err # NoErr
    THEN [NoResp EXCEPT !.status = StatusUnauthorized, !.body = "Unauthorized",
                        !.next = 1]
    ELSE [NoResp EXCEPT !.next = 1,
                        !.ctx = contextWithToken(<<>>, claims[1], tokenStr)]
MiddlewareRespond(claims, err, tokenStr) ==
    IF err # NoErr
    THEN [NoResp EXCEPT !.status = StatusUnauthorized, !.body = "Unauthorized"]
    ELSE [NoResp EXCEPT !.next = 1,
                        !.ctx = contextWithToken(<<>>, claims[1], tokenStr)]

\* VerifyToken's return (claims, err), and the handler's response to it when
\* the call is the middleware's; next, when served, reads the request's context
\* through the accessors.
Finished(l, op, claims, err) ==
    LET l1   == [l EXCEPT !.claims = claims, !.err = err]
        resp == MiddlewareRespond(claims, err, l.tokenStr)
    IN  IF op = "Middleware"
        THEN [l1 EXCEPT !.resp = resp,
                        !.down = IF resp.next > 0 THEN <<Accessors(resp.ctx)>> ELSE <<>>]
        ELSE l1

\* ------------------------------------------------------------- VerifyToken
\* jwt.ParseWithClaims up to the call of the Keyfunc: the token is decoded and
\* its method checked against the valid methods.
VerifyStart(p, v, op, tokenStr) ==
    LET pu == ParseUnverified(tokenStr)
        l0 == [NoLoc EXCEPT !.tokenStr = tokenStr, !.startVer = returned[v]]
    IN  IF pu.err # NoErr
        THEN /\ pc' = [pc EXCEPT ![p] = "done"]
             /\ loc' = [loc EXCEPT ![p] = Finished(l0, op, <<>>, pu.err)]
        ELSE IF ~ValidMethod(parseOptions[v], pu.token[1])
        THEN /\ pc' = [pc EXCEPT ![p] = "done"]
             /\ loc' = [loc EXCEPT ![p] = Finished(l0, op, <<>>,
                           Err("ErrTokenSignatureInvalid", "signing method is invalid", ""))]
        ELSE /\ pc' = [pc EXCEPT ![p] = "kf_lock"]
             /\ loc' = [loc EXCEPT ![p] = [l0 EXCEPT !.token = pu.token]]

\* VerifyToken(tokenString), called directly.
VerifyTokenCall(p, v, tokenStr, max) ==
    /\ Begin(p, v, "VerifyToken", tokenStr, max)
    /\ VerifyStart(p, v, "VerifyToken", tokenStr)
    /\ UNCHANGED <<packageOptions, constructed, Keys, parseOptions, mu, newCall, hist, returned>>

\* The middleware's handler on request r: tokenFromHeaders, then VerifyToken.
MiddlewareCall(p, v, r, max) ==
    /\ Begin(p, v, "Middleware", r, max)
    /\ IF tokenFromHeaders(r) = Panic
       THEN /\ pc' = [pc EXCEPT ![p] = "done"]
            /\ loc' = [loc EXCEPT ![p] = [NoLoc EXCEPT !.resp.panic = TRUE]]
       ELSE VerifyStart(p, v, "Middleware", tokenFromHeaders(r))
    /\ UNCHANGED <<packageOptions, constructed, Keys, parseOptions, mu, newCall, hist, returned>>

\* ----------------------------------------------------------------- KeyFunc
\* The function KeyFunc returns, called directly on a token.
KeyFuncCall(p, v, token, max) ==
    /\ Begin(p, v, "KeyFunc", token, max)
    /\ pc' = [pc EXCEPT ![p] = "kf_lock"]
    /\ loc' = [loc EXCEPT ![p] = [NoLoc EXCEPT !.token = <<token>>,
                                               !.startVer = returned[v]]]
    /\ UNCHANGED <<packageOptions, constructed, Keys, parseOptions, mu, newCall, hist, returned>>

\* v.Lock() in the key function.
KeyFuncLock(p) ==
    /\ pc[p] = "kf_lock"
    /\ mu[call[p].v] = 0
    /\ mu' = [mu EXCEPT ![call[p].v] = p]
    /\ pc' = [pc EXCEPT ![p] = "kf_body"]
    /\ UNCHANGED <<packageOptions, constructed, Keys, parseOptions, newCall, call, loc, ncalls,
                   hist, returned>>

\* The body of the key function: the key for the header's kid, or an error.
KeyFuncResultFirst(keys, token) ==
    IF DOMAIN keys = {} THEN [key |-> "", err |-> Err("errorString", "no such key", "")]
    ELSE [key |-> keys[CHOOSE k \in DOMAIN keys : TRUE], err |-> NoErr]
KeyFuncResultNoConv(keys, token) ==
    IF token.kid.typ = "absent"
    THEN [key |-> "", err |-> Err("errorString", "no kid in header", "")]
    ELSE IF token.kid.val \notin DOMAIN keys
    THEN [key |-> "", err |-> Err("errorString", "no such key", token.kid.val)]
    ELSE [key |-> keys[token.kid.val], err |-> NoErr]
KeyFuncResult(keys, token) ==
    IF token.kid.typ = "absent"
    THEN [key |-> "", err |-> Err("errorString", "no kid in header", "")]
    ELSE IF token.kid.typ # "string"
    THEN [key |-> "", err |-> Err("errorString", "cannot convert kid to string", "")]
    ELSE IF token.kid.val \notin DOMAIN keys
    THEN [key |-> "", err |-> Err("errorString", "no such key", token.kid.val)]
    ELSE [key |-> keys[token.kid.val], err |-> NoErr]

\* The deferred v.Unlock() of the key function, run on each of its returns
\* (err is the error returned): the mutex afterwards.
KeyFuncUnlockOnError(m, v, err) == IF err # NoErr THEN [m EXCEPT ![v] = 0] ELSE m
KeyFuncUnlockOnSuccess(m, v, err) == IF err = NoErr THEN [m EXCEPT ![v] = 0] ELSE m
KeyFuncUnlock(m, v, err) == [m EXCEPT ![v] = 0]

\* The key function from after the Lock to its return and the deferred Unlock;
\* within ParseWithClaims an error is wrapped as ErrTokenUnverifiable and ends
\* VerifyToken, a key goes on to the signature check.
KeyFuncBody(p) ==
    /\ pc[p] = "kf_body"
    /\ mu[call[p].v] = p
    /\ LET v  == call[p].v
           r  == KeyFuncResult(Keys[v], loc[p].token[1])
           l1 == [loc[p] EXCEPT !.looked = TRUE, !.obsKeys = Keys[v],
                                !.obsVer = Len(hist[v]), !.key = r.key,
                                !.kerr = r.err]
       IN  /\ mu' = KeyFuncUnlock(mu, v, r.err)
           /\ IF call[p].op = "KeyFunc"
              THEN /\ pc' = [pc EXCEPT ![p] = "done"]
                   /\ loc' = [loc EXCEPT ![p] = [l1 EXCEPT !.err = r.err]]
              ELSE IF r.err # NoErr
              THEN /\ pc' = [pc EXCEPT ![p] = "done"]
                   /\ loc' = [loc EXCEPT ![p] = Finished(l1, call[p].op, <<>>,
                                 Err("ErrTokenUnverifiable", r.err.msg, r.err.name))]
              ELSE /\ pc' = [pc EXCEPT ![p] = "vt_verify"]
                   /\ loc' = [loc EXCEPT ![p] = l1]
    /\ UNCHANGED <<packageOptions, constructed, Keys, parseOptions, newCall, call, ncalls, hist, returned>>

\* ----------------------------------------- signature and claims, lock-free
\* The times the time source may give: the injected function's, else the clock's.
NowValues(opts) == IF opts.timeFunc = <<>> THEN {T0, T0 + 1} ELSE {opts.timeFunc[1]}

\* The rest of ParseWithClaims, with no lock held: token.Method.Verify with the
\* key the key function returned, then the validation of the claims at the
\* time source's now; and VerifyToken's return.
VerifyAndValidate(p) ==
    /\ pc[p] = "vt_verify"
    /\ LET l1 == [loc[p] EXCEPT !.sigChecked = TRUE]
       IN  IF ~VerifySignature(loc[p].token[1], loc[p].key)
           THEN loc' = [loc EXCEPT ![p] = Finished(l1, call[p].op, <<>>,
                           Err("ErrTokenSignatureInvalid", "verification error", ""))]
           ELSE \E now \in NowValues(parseOptions[call[p].v]) :
                  LET claims == loc[p].token[1].claims
                      failed == Validate(parseOptions[call[p].v], claims, now)
                      l2     == [l1 EXCEPT !.now = <<now>>]
                  IN  loc' = [loc EXCEPT ![p] =
                        IF failed = {}
                        THEN Finished(l2, call[p].op, <<claims>>, NoErr)
                        ELSE Finished(l2, call[p].op, <<>>,
                               [Err("ErrTokenInvalidClaims", "token has invalid claims", "")
                                   EXCEPT !.causes = failed])]
    /\ pc' = [pc EXCEPT ![p] = "done"]
    /\ UNCHANGED <<packageOptions, constructed, Keys, parseOptions, mu, newCall, call, ncalls,
                   hist, returned>>

\* The call returns to its caller; a successful SetKeys has now returned.
Return(p) ==
    /\ pc[p] = "done"
    /\ pc' = [pc EXCEPT ![p] = "idle"]
    /\ returned' =
         IF call[p].op = "SetKeys" /\ loc[p].err = NoErr /\ loc[p].obsVer > returned[call[p].v]
         THEN [returned EXCEPT ![call[p].v] = loc[p].obsVer]
         ELSE returned
    /\ call' = [call EXCEPT ![p] = NoCall]
    /\ loc' = [loc EXCEPT ![p] = NoLoc]
    /\ UNCHANGED <<packageOptions, constructed, Keys, parseOptions, mu, newCall, ncalls, hist>>

\* ---------------------------------------------------------------- accessors
\* Contexts the middleware did not enrich: the background context, and
\* contexts that hold values under other packages' keys.
ForeignKey == 2
OtherContexts ==
    {<<>>, (ForeignKey :> StringValue(<<JUNK>>)),
     (ForeignKey :> ClaimsValue(BaseClaims))}

\* A handler outside the middleware calls both accessors on a context.
AccessorsCall(p, ctx, max) ==
    /\ pc[p] = "idle"
    /\ ncalls < max
    /\ ncalls' = ncalls + 1
    /\ call' = [call EXCEPT ![p] = [op |-> "Accessors", v |-> "", arg |-> ctx]]
    /\ pc' = [pc EXCEPT ![p] = "done"]
    /\ loc' = [loc EXCEPT ![p] = [NoLoc EXCEPT !.down = <<Accessors(ctx)>>]]
    /\ UNCHANGED <<packageOptions, constructed, Keys, parseOptions, mu, newCall, hist, returned>>

\* ------------------------------------------------------------------ inputs
TimeFuncs == {<<>>, <<T0>>}
LookupTokens == {Jwt("PS256", kid, "privA", BaseClaims) : kid \in HeaderKids}
TokenStrings(tokens) == {<<>>, <<JUNK>>} \cup {<<t>> : t \in tokens}
HeaderValues(tokens) ==
    {<<>>, <<JUNK>>, <<SEP>>, <<SEP, JUNK>>}
      \cup {<<SEP, t>> : t \in tokens} \cup {<<t>> : t \in tokens}
      \cup {<<JUNK, SEP, t>> : t \in tokens} \cup {<<SEP, t, SEP, JUNK>> : t \in tokens}
Requests(tokens) ==
    {Request(a, x) : a \in HeaderValues(tokens), x \in {<<>>, <<SEP, JUNK>>}}
      \cup {Request(<<>>, x) : x \in HeaderValues(tokens)}

\* The inputs of the concurrent specification: a few key sets (one of them
\* with a malformed entry), a direct lookup of k2, a token for each kid signed
\* by the same key, and a request carrying the first.
NewKeySets == {<<>>, ("k1" :> "pemA")}
ConcKeySets ==
    {("k1" :> "pemA"), ("k1" :> "pemB" @@ "k2" :> "pemA"),
     ("k1" :> "pemA" @@ "k2" :> "foo")}
ConcLookups == {Jwt("PS256", StringKid("k2"), "privA", BaseClaims)}
ConcTokens ==
    {Jwt("PS256", StringKid("k1"), "privA", BaseClaims),
     Jwt("PS256", StringKid("k2"), "privA", BaseClaims)}
ConcRequests ==
    {Request(<<SEP, Jwt("PS256", StringKid("k1"), "privA", BaseClaims)>>, <<>>)}

\* Goroutines are interchangeable: a call starts on the first idle one.
FirstIdle(p) == \A q \in Procs : q < p => pc[q] # "idle"

\* The concurrent specification: goroutines share verifier v1, which was given
\* a time source.
Next ==
    \/ \E pemkeys \in NewKeySets : NewVerifier("v1", pemkeys, <<T0>>)
    \/ \E p \in Procs, pemkeys \in ConcKeySets :
          FirstIdle(p) /\ SetKeysCall(p, "v1", pemkeys, MaxCalls)
    \/ \E p \in Procs, t \in ConcLookups :
          FirstIdle(p) /\ KeyFuncCall(p, "v1", t, MaxCalls)
    \/ \E p \in Procs, t \in ConcTokens :
          FirstIdle(p) /\ VerifyTokenCall(p, "v1", <<t>>, MaxCalls)
    \/ \E p \in Procs, r \in ConcRequests :
          FirstIdle(p) /\ MiddlewareCall(p, "v1", r, MaxCalls)
    \/ \E p \in Procs : SetKeysLock(p)
    \/ \E p \in Procs : SetKeysAssign(p)
    \/ \E p \in Procs : KeyFuncLock(p)
    \/ \E p \in Procs : KeyFuncBody(p)
    \/ \E p \in Procs : VerifyAndValidate(p)
    \/ \E p \in Procs : Return(p)

Spec == Init /\ [][Next]_vars

\* The sequential specification: one goroutine, every key set, time source,
\* token and header shape.
RequestTokens ==
    {Jwt("PS256", StringKid("k1"), "privA", BaseClaims),
     Jwt("PS256", StringKid("k1"), "privB", BaseClaims),
     Jwt("PS256", StringKid("k1"), "privA", [BaseClaims EXCEPT !.exp = <<T0 - 10>>]),
     Jwt("HS256", StringKid("k1"), "privA", BaseClaims),
     Jwt("PS256", NoKid, "privA", BaseClaims)}
NextSeq ==
    \/ \E pemkeys \in PemKeySets, tf \in TimeFuncs : NewVerifier("v1", pemkeys, tf)
    \/ \E pemkeys \in PemKeySets : SetKeysCall(1, "v1", pemkeys, SeqCalls)
    \/ \E t \in LookupTokens : KeyFuncCall(1, "v1", t, SeqCalls)
    \/ \E s \in TokenStrings(AllTokens) : VerifyTokenCall(1, "v1", s, SeqCalls)
    \/ \E r \in Requests(RequestTokens) : MiddlewareCall(1, "v1", r, SeqCalls)
    \/ \E ctx \in OtherContexts : AccessorsCall(1, ctx, SeqCalls)
    \/ SetKeysLock(1)
    \/ SetKeysAssign(1)
    \/ KeyFuncLock(1)
    \/ KeyFuncBody(1)
    \/ VerifyAndValidate(1)
    \/ Return(1)

SpecSeq == Init /\ [][NextSeq]_vars

\* The specification of two verifiers: goroutines call either of v1 and v2,
\* each created with or without a time source; the injected source is late
\* enough for the tokens to have expired.
LateTimeFuncs == {<<>>, <<T0 + 4 * Leeway>>}
TwoKeySets == {("k1" :> "pemB"), ("k1" :> "pemA" @@ "k2" :> "foo")}
TwoTokens == {Jwt("PS256", StringKid("k1"), "privA", BaseClaims)}
NextTwo ==
    \/ \E v \in Verifiers, pemkeys \in NewKeySets, tf \in LateTimeFuncs :
          NewVerifier(v, pemkeys, tf)
    \/ \E p \in Procs, v \in Verifiers, pemkeys \in TwoKeySets :
          FirstIdle(p) /\ SetKeysCall(p, v, pemkeys, TwoCalls)
    \/ \E p \in Procs, v \in Verifiers, t \in TwoTokens :
          FirstIdle(p) /\ VerifyTokenCall(p, v, <<t>>, TwoCalls)
    \/ \E p \in Procs, v \in Verifiers, r \in ConcRequests :
          FirstIdle(p) /\ MiddlewareCall(p, v, r, TwoCalls)
    \/ \E p \in Procs : SetKeysLock(p)
    \/ \E p \in Procs : SetKeysAssign(p)
    \/ \E p \in Procs : KeyFuncLock(p)
    \/ \E p \in Procs : KeyFuncBody(p)
    \/ \E p \in Procs : VerifyAndValidate(p)
    \/ \E p \in Procs : Return(p)

SpecTwo == Init /\ [][NextTwo]_vars

\* The specification of termination: a bounded number of VerifyToken and
\* SetKeys calls run concurrently on v1, the tokens taking each return of the
\* key function (no kid, a kid that is no string, a kid that is or is not in
\* the store).  Go's scheduler lets every goroutine that can take a step take
\* it eventually, and a sync.Mutex that stays unlocked is acquired by a
\* goroutine waiting for it: weak fairness of each goroutine's steps.
NextLive ==
    \/ \E pemkeys \in NewKeySets : NewVerifier("v1", pemkeys, <<T0>>)
    \/ \E p \in Procs, pemkeys \in TwoKeySets :
          FirstIdle(p) /\ SetKeysCall(p, "v1", pemkeys, LiveCalls)
    \/ \E p \in Procs, t \in LookupTokens :
          FirstIdle(p) /\ VerifyTokenCall(p, "v1", <<t>>, LiveCalls)
    \/ \E p \in Procs : SetKeysLock(p)
    \/ \E p \in Procs : SetKeysAssign(p)
    \/ \E p \in Procs : KeyFuncLock(p)
    \/ \E p \in Procs : KeyFuncBody(p)
    \/ \E p \in Procs : VerifyAndValidate(p)
    \/ \E p \in Procs : Return(p)

\* The steps of goroutine p inside a call, up to its return.
Step(p) ==
    \/ SetKeysLock(p) \/ SetKeysAssign(p)
    \/ KeyFuncLock(p) \/ KeyFuncBody(p)
    \/ VerifyAndValidate(p) \/ Return(p)

SpecLive == Init /\ [][NextLive]_vars /\ \A p \in Procs : WF_vars(Step(p))

\* ================================================================== claims
\* The keys a well-formed key set installs: each entry's PEM, parsed.
InstalledKeys(pemkeys) ==
    [k \in DOMAIN pemkeys |-> ParseRSAPublicKeyFromPEM(pemkeys[k]).key]
Verifying(p) == call[p].op \in {"VerifyToken", "Middleware"}
KeyNotFound(e, k) == e.kind = "errorString" /\ e.msg = "no such key" /\ e.name = k

\* C1: a lookup for a token whose kid is the string k returns the key that the
\* most recently installed key set (NewVerifier's, or the last successful
\* SetKeys') holds for k, and fails with "no such key k" when that set has no k.
C1_LookupReturnsInstalledKey ==
    \A p \in Procs :
      (loc[p].looked /\ loc[p].token[1].kid.typ = "string") =>
        LET k      == loc[p].token[1].kid.val
            latest == hist[call[p].v][loc[p].obsVer]
        IN  IF k \in DOMAIN latest
            THEN /\ loc[p].kerr = NoErr
                 /\ loc[p].key = ParseRSAPublicKeyFromPEM(latest[k]).key
            ELSE /\ KeyNotFound(loc[p].kerr, k)
                 /\ loc[p].key = ""

\* C1 witness: after a rotation, a lookup has returned a key for a kid that
\* the verifier's first key set mapped differently or not at all.
C1_Witness ==
    \E p \in Procs :
      /\ pc[p] = "done" /\ loc[p].looked /\ loc[p].obsVer >= 2
      /\ loc[p].token[1].kid.typ = "string"
      /\ LET k == loc[p].token[1].kid.val
             h == hist[call[p].v]
         IN  /\ k \in DOMAIN h[loc[p].obsVer]
             /\ loc[p].key = ParseRSAPublicKeyFromPEM(h[loc[p].obsVer][k]).key
             /\ (k \notin DOMAIN h[1] \/ h[1][k] # h[loc[p].obsVer][k])

\* C2: NewVerifier and SetKeys given a key set with a malformed entry fail
\* with a parse error naming a malformed entry's kid; the failed call ends
\* without ever touching the store, which always holds exactly the last
\* well-formed set installed.
C2_MalformedSetRejected ==
    /\ \A p \in Procs :
         (call[p].op = "SetKeys" /\ BadEntries(call[p].arg) # {}) =>
            /\ pc[p] = "done"
            /\ loc[p].err.kind = "errorString"
            /\ loc[p].err.msg = "unable to parse pem for keyID"
            /\ loc[p].err.name \in BadEntries(call[p].arg)
    /\ \A v \in Verifiers :
         /\ BadEntries(newCall[v].pemkeys) # {} =>
              /\ newCall[v].err.msg = "unable to parse pem for keyID"
              /\ newCall[v].err.name \in BadEntries(newCall[v].pemkeys)
         /\ BadEntries(newCall[v].pemkeys) = {} => newCall[v].err = NoErr
         /\ (v \in constructed) = (hist[v] # <<>>)
         /\ \A i \in 1..Len(hist[v]) : BadEntries(hist[v][i]) = {}
         /\ v \in constructed => Keys[v] = InstalledKeys(hist[v][Len(hist[v])])

\* C2 witness: a SetKeys whose set holds a malformed entry and a well-formed
\* one the store does not hold has failed, on a store that holds keys.
C2_Witness ==
    \E p \in Procs :
      /\ pc[p] = "done" /\ call[p].op = "SetKeys" /\ loc[p].err # NoErr
      /\ Keys[call[p].v] # <<>>
      /\ \E k \in DOMAIN call[p].arg :
           /\ k \notin BadEntries(call[p].arg)
           /\ (k \notin DOMAIN Keys[call[p].v]
                 \/ Keys[call[p].v][k] # ParseRSAPublicKeyFromPEM(call[p].arg[k]).key)

\* C3: whatever the interleaving, the mapping a lookup observes, and the store
\* at every moment, is exactly one of the complete key sets installed so far.
C3_LookupSeesCompleteSet ==
    /\ \A p \in Procs :
         loc[p].looked =>
           \E i \in 1..Len(hist[call[p].v]) :
              loc[p].obsKeys = InstalledKeys(hist[call[p].v][i])
    /\ \A v \in constructed :
         \E i \in 1..Len(hist[v]) : Keys[v] = InstalledKeys(hist[v][i])

\* C3 witness: a lookup that started before a SetKeys returned has observed
\* the set that SetKeys installed, which differs from the one before it.
C3_Witness ==
    \E p, q \in Procs :
      /\ p # q
      /\ call[q].op = "SetKeys" /\ pc[q] = "done" /\ loc[q].err = NoErr
      /\ call[p].v = call[q].v
      /\ loc[p].looked /\ loc[p].obsVer = loc[q].obsVer
      /\ loc[p].startVer < loc[q].obsVer
      /\ hist[call[q].v][loc[q].obsVer] # hist[call[q].v][loc[q].obsVer - 1]

\* C4: a lookup that starts after a successful SetKeys has returned observes
\* the set that call installed or a later one; so VerifyToken never succeeds
\* for a kid that is in none of those sets.
C4_LookupAfterRotationSeesIt ==
    \A p \in Procs :
      loc[p].looked =>
        /\ \E i \in loc[p].startVer..Len(hist[call[p].v]) :
              loc[p].obsKeys = InstalledKeys(hist[call[p].v][i])
        /\ (Verifying(p) /\ loc[p].claims # <<>>) =>
              \E i \in loc[p].startVer..Len(hist[call[p].v]) :
                 loc[p].token[1].kid.val \in DOMAIN hist[call[p].v][i]

\* C4 witness: a rotation that removed a kid has returned, and a VerifyToken
\* started afterwards for a token with that kid has failed at the lookup.
C4_Witness ==
    \E p \in Procs :
      /\ Verifying(p) /\ pc[p] = "done" /\ loc[p].looked
      /\ loc[p].startVer >= 2 /\ loc[p].startVer = Len(hist[call[p].v])
      /\ LET k == loc[p].token[1].kid.val
             h == hist[call[p].v]
         IN  /\ \E i \in 1..(loc[p].startVer - 1) : k \in DOMAIN h[i]
             /\ k \notin DOMAIN h[loc[p].startVer]
             /\ loc[p].err.kind = "ErrTokenUnverifiable"
             /\ loc[p].claims = <<>>

\* What the claims about VerifyToken speak of: a finished call whose token
\* decoded, and the parts of "valid in every respect".
VerifyDone(p) == Verifying(p) /\ pc[p] = "done" /\ loc[p].token # <<>>
Tok(p) == loc[p].token[1]
KeyInstalled(p) ==
    /\ loc[p].looked
    /\ Tok(p).kid.typ = "string"
    /\ Tok(p).kid.val \in DOMAIN loc[p].obsKeys
SignedByInstalled(p) ==
    KeyInstalled(p) /\ loc[p].obsKeys[Tok(p).kid.val] = PublicOf(Tok(p).signer)
Rejected(p, kind) == loc[p].claims = <<>> /\ loc[p].err.kind = kind
Accepted(p) == loc[p].claims = <<Tok(p).claims>> /\ loc[p].err = NoErr
IssAudOk(c) == c.iss = ssdTokenIssuer /\ ssdTokenAudience \in c.aud
ExpOk(c, now) == c.exp # <<>> /\ c.exp[1] > now - Leeway
IatOk(c, now) == c.iat # <<>> /\ c.iat[1] <= now + Leeway
NbfOk(c, now) == c.nbf = <<>> \/ c.nbf[1] <= now + Leeway

\* C5: VerifyToken returns claims only for a token whose signature verifies
\* under the key the lookup read for its kid, and then they are the signed
\* payload; a PS256 token with the required issuer and audience, unexpired
\* (and not issued or valid only in the future) verifies when the key read for
\* its kid is its signer's public key, and fails with ErrTokenSignatureInvalid
\* when the key read is another one.
C5_ClaimsOnlyUnderLookedUpKey ==
    \A p \in Procs :
      /\ (Verifying(p) /\ loc[p].claims # <<>>) =>
            /\ loc[p].token # <<>>
            /\ SignedByInstalled(p)
            /\ loc[p].sigChecked
            /\ loc[p].claims = <<Tok(p).claims>>
      /\ (VerifyDone(p) /\ KeyInstalled(p)) =>
            IF SignedByInstalled(p)
            THEN /\ loc[p].now # <<>>
                 /\ (/\ IssAudOk(Tok(p).claims)
                     /\ ExpOk(Tok(p).claims, loc[p].now[1])
                     /\ IatOk(Tok(p).claims, loc[p].now[1])
                     /\ NbfOk(Tok(p).claims, loc[p].now[1])) => Accepted(p)
            ELSE Rejected(p, "ErrTokenSignatureInvalid")

\* C5 witness: the same token has verified for one caller, whose lookup read
\* the signer's public key, and failed with ErrTokenSignatureInvalid for
\* another, whose lookup read a different key for the kid.
C5_Witness ==
    \E p, q \in Procs :
      /\ p # q /\ VerifyDone(p) /\ VerifyDone(q)
      /\ Tok(p) = Tok(q)
      /\ Accepted(p)
      /\ KeyInstalled(q) /\ Rejected(q, "ErrTokenSignatureInvalid")

\* C6: a token that declares an algorithm other than PS256 is rejected in
\* every state of the key store, without the key function having been called
\* or the signature checked.
C6_ForeignAlgorithmRejectedFirst ==
    \A p \in Procs :
      (/\ Verifying(p) /\ pc[p] # "idle"
       /\ Len(loc[p].tokenStr) = 1
       /\ loc[p].tokenStr[1].t = "jwt"
       /\ loc[p].tokenStr[1].alg # "PS256") =>
          /\ pc[p] = "done"
          /\ ~loc[p].looked
          /\ ~loc[p].sigChecked
          /\ loc[p].claims = <<>>
          /\ loc[p].err # NoErr
          /\ loc[p].resp.next = 0

\* C6 witness: a token of algorithm "none" or HS256, signed by the holder of
\* the key installed for its kid, has been rejected for its method.
C6_Witness ==
    \E p \in Procs :
      /\ Verifying(p) /\ pc[p] = "done"
      /\ Len(loc[p].tokenStr) = 1
      /\ loc[p].tokenStr[1].t = "jwt"
      /\ loc[p].tokenStr[1].alg \in {"none", "HS256"}
      /\ loc[p].tokenStr[1].kid.typ = "string"
      /\ loc[p].tokenStr[1].kid.val \in DOMAIN Keys[call[p].v]
      /\ Keys[call[p].v][loc[p].tokenStr[1].kid.val] = PublicOf(loc[p].tokenStr[1].signer)
      /\ loc[p].err = Err("ErrTokenSignatureInvalid", "signing method is invalid", "")

\* The error the caller of a lookup receives: the key function's own, or
\* VerifyToken's.
LookupErr(p) == IF call[p].op = "KeyFunc" THEN loc[p].kerr ELSE loc[p].err
\* The kind of the error a lookup of an unknown kid returns.
KeyNotFoundKind(op) ==
    IF op = "KeyFunc"
    THEN KeyFuncResult(<<>>, Jwt("PS256", StringKid("k1"), "privA", BaseClaims)).err.kind
    ELSE "ErrTokenUnverifiable"

C8_ExpirationLeeway ==
    \A p \in Procs :
      (VerifyDone(p) /\ SignedByInstalled(p)) =>
         /\ loc[p].now # <<>>
         /\ LET c   == Tok(p).claims
                now == loc[p].now[1]
            IN  (IssAudOk(c) /\ IatOk(c, now) /\ NbfOk(c, now)) =>
                  /\ (c.exp = <<>> \/ c.exp[1] < now - Leeway) =>
                        /\ Rejected(p, "ErrTokenInvalidClaims")
                        /\ loc[p].err.causes \in {{"exp claim is required"}, {"ErrTokenExpired"}}
                  /\ (c.exp # <<>> /\ c.exp[1] > now - Leeway) => Accepted(p)

\* C8 witness: a token that expired 3 minutes before now has been accepted.
C8_Witness ==
    \E p \in Procs :
      /\ VerifyDone(p) /\ loc[p].now # <<>>
      /\ Tok(p).claims.exp = <<loc[p].now[1] - 3>>
      /\ Accepted(p)

C10_NextOnlyAfterSuccess ==
    \A p \in Procs :
      call[p].op = "Middleware" =>
        /\ pc[p] # "done" => loc[p].resp = NoResp
        /\ pc[p] = "done" =>
             /\ loc[p].resp.next = (IF loc[p].claims # <<>> /\ loc[p].err = NoErr THEN 1 ELSE 0)
             /\ loc[p].err # NoErr =>
                  /\ loc[p].claims = <<>>
                  /\ loc[p].resp.status = StatusUnauthorized
                  /\ loc[p].resp.next = 0
                  /\ loc[p].resp.ctx = <<>>
             /\ call[p].arg = Request(<<>>, <<>>) =>
                  /\ loc[p].err.kind = "ErrTokenMalformed"
                  /\ loc[p].resp.status = StatusUnauthorized

\* C10 witness: a request with neither header has been answered 401 without
\* a call of next.
C10_Witness ==
    \E p \in Procs :
      /\ call[p].op = "Middleware" /\ pc[p] = "done"
      /\ call[p].arg = Request(<<>>, <<>>)
      /\ loc[p].resp.status = StatusUnauthorized
      /\ loc[p].resp.next = 0 /\ loc[p].resp.ctx = <<>>

\* C11: whenever the handler has called next, the claims accessor on the
\* request's context returns the claims VerifyToken returned for this request
\* and true, and the token accessor the raw token string that was verified and
\* true; on a context the middleware did not enrich both accessors return
\* found = false.
C11_AccessorsReturnVerified ==
    \A p \in Procs :
      /\ (call[p].op = "Middleware" /\ loc[p].resp.next > 0) =>
            /\ loc[p].claims # <<>>
            /\ loc[p].down = <<[claims |-> [v |-> loc[p].claims, ok |-> TRUE],
                                token  |-> [v |-> loc[p].tokenStr, ok |-> TRUE]]>>
            /\ loc[p].tokenStr = <<Tok(p)>>
            /\ loc[p].tokenStr = tokenFromHeaders(call[p].arg)
      /\ (call[p].op = "Accessors" /\ pc[p] = "done") =>
            /\ loc[p].down # <<>>
            /\ ~loc[p].down[1].claims.ok
            /\ ~loc[p].down[1].token.ok

\* C11 witness: next has been served for a request whose Authorization header
\* carries a valid token, and read that token and its claims from the context.
C11_Witness ==
    \E p \in Procs :
      /\ call[p].op = "Middleware" /\ pc[p] = "done" /\ loc[p].resp.next = 1
      /\ call[p].arg.Authorization = <<SEP>> \o loc[p].tokenStr
      /\ loc[p].down # <<>>
      /\ loc[p].down[1].claims = [v |-> <<BaseClaims>>, ok |-> TRUE]
      /\ loc[p].down[1].token.ok /\ loc[p].down[1].token.v = loc[p].tokenStr

\* The failures VerifyToken reports, one of each kind: malformed token, wrong
\* algorithm, missing kid, unknown kid, bad signature, invalid claims.
RejectionErrs ==
    {Err("ErrTokenMalformed", "token is malformed", ""),
     Err("ErrTokenSignatureInvalid", "signing method is invalid", ""),
     Err("ErrTokenUnverifiable", "no kid in header", ""),
     Err("ErrTokenUnverifiable", "no such key", "k1"),
     Err("ErrTokenSignatureInvalid", "verification error", ""),
     [Err("ErrTokenInvalidClaims", "token has invalid claims", "")
         EXCEPT !.causes = {"ErrTokenExpired"}]}

\* C12: the response to a rejected request is status 401 with the body
\* "Unauthorized" and no header set, and it equals the response to any other
\* rejected request, whatever that one's failure and token.
C12_RejectionIndependentOfCause ==
    \A p \in Procs :
      (call[p].op = "Middleware" /\ pc[p] = "done" /\ loc[p].err # NoErr) =>
         /\ loc[p].resp.status = StatusUnauthorized
         /\ loc[p].resp.body = "Unauthorized"
         /\ loc[p].resp.headers = {}
         /\ \A e \in RejectionErrs, str \in TokenStrings(RequestTokens) :
               loc[p].resp = MiddlewareRespond(<<>>, e, str)

\* C12 witness: a request whose token is signed by another key than the one
\* installed for its kid has been rejected.
C12_Witness ==
    \E p \in Procs :
      /\ call[p].op = "Middleware" /\ pc[p] = "done"
      /\ loc[p].err = Err("ErrTokenSignatureInvalid", "verification error", "")
      /\ loc[p].resp.status = StatusUnauthorized

\* The header value the claims about extraction speak of: Authorization's
\* when there is one, else X-OpsMx-Auth's.
ChosenHeader(r) ==
    IF r.Authorization # <<>> THEN r.Authorization ELSE r.XOpsMxAuth
HasBearerPrefix(value) == value # <<>> /\ value[1] = SEP

\* C13 as stated: the handler hands VerifyToken the empty string when neither
\* header is present, and otherwise, for a chosen header value that starts
\* with "Bearer ", exactly the text that follows this prefix.
C13_Original ==
    \A p \in Procs :
      (call[p].op = "Middleware" /\ pc[p] # "idle") =>
         LET value == ChosenHeader(call[p].arg)
         IN  /\ value = <<>> => (~loc[p].resp.panic /\ loc[p].tokenStr = <<>>)
             /\ HasBearerPrefix(value) =>
                   (~loc[p].resp.panic /\ loc[p].tokenStr = Tail(value))

\* C14 as stated: whatever the two headers hold, the handler ends in exactly
\* one of two ways, next called once with the enriched context or a 401
\* response, and never by a panic; a request whose chosen header value is not
\* empty and holds no "Bearer " is answered 401.
C14_Original ==
    \A p \in Procs :
      (call[p].op = "Middleware" /\ pc[p] = "done") =>
         /\ ~loc[p].resp.panic
         /\ \/ /\ loc[p].resp.next = 1 /\ loc[p].resp.status = 0
               /\ SSDClaimsFromContext(loc[p].resp.ctx).ok
               /\ SSDTokenFromContext(loc[p].resp.ctx).ok
            \/ /\ loc[p].resp.next = 0 /\ loc[p].resp.status = StatusUnauthorized
         /\ LET value == ChosenHeader(call[p].arg)
            IN  (value # <<>> /\ \A i \in 1..Len(value) : value[i] # SEP) =>
                   loc[p].resp.status = StatusUnauthorized

\* The goroutines that could hold or be about to take v's mutex.
InCall(p, v) == pc[p] # "idle" /\ call[p].v = v
CryptoPhase(p) == pc[p] = "vt_verify"

\* C15: a goroutine holds the mutex only between the Lock of the key function
\* or of SetKeys and the return that follows it; none holds it while it checks
\* the signature and validates the claims; so a goroutine waiting at a Lock
\* while no other goroutine is in the key function's body or in SetKeys'
\* assignment finds the mutex free.
C15_NoLockDuringCrypto ==
    /\ \A p \in Procs : CryptoPhase(p) => mu[call[p].v] # p
    /\ \A v \in Verifiers :
          /\ mu[v] # 0 => (InCall(mu[v], v) /\ pc[mu[v]] \in {"kf_body", "sk_assign"})
          /\ (\A q \in Procs : InCall(q, v) => pc[q] \notin {"kf_body", "sk_assign"})
                => mu[v] = 0

\* C15 witness: one goroutine is in the crypto phase of VerifyToken while
\* another holds the mutex of the same verifier.
C15_Witness ==
    \E p, q \in Procs :
      /\ p # q /\ CryptoPhase(p) /\ call[q].v = call[p].v
      /\ mu[call[p].v] = q

\* The options a verifier was created with: the package's defaults and the
\* time source given to its own NewVerifier call.
OwnOptions(v) == NewOptions(defaultParseOptions, newCall[v].timeFunc).opts
\* A step acts on verifier w when it creates w or moves a call on w.
ActsOn(w) ==
    \/ w \in constructed' \ constructed
    \/ newCall'[w] # newCall[w]
    \/ \E p \in Procs :
          /\ call[p].v = w \/ call'[p].v = w
          /\ pc'[p] # pc[p] \/ call'[p] # call[p]

\* C16: calls on one verifier, and the creation of one (with or without a
\* time source), leave every other verifier's key set, options and mutex as
\* they are, and the package's default options too; so each verifier's options
\* are those of its own creation, its key set is the last one installed in it,
\* and VerifyToken on it accepts a token exactly when the token is signed by the
\* key its own store held for the kid and its claims are valid under its own
\* options at a time its own time source gives.
C16_VerifiersIndependent ==
    /\ [](/\ packageOptions = defaultParseOptions
          /\ \A v \in constructed :
                /\ parseOptions[v] = OwnOptions(v)
                /\ Keys[v] = InstalledKeys(hist[v][Len(hist[v])])
          /\ \A p \in Procs :
                VerifyDone(p) =>
                  LET v == call[p].v
                  IN  /\ loc[p].looked =>
                            \E i \in 1..Len(hist[v]) :
                               loc[p].obsKeys = InstalledKeys(hist[v][i])
                      /\ loc[p].now # <<>> => loc[p].now[1] \in NowValues(OwnOptions(v))
                      /\ Accepted(p) =
                            (/\ SignedByInstalled(p)
                             /\ loc[p].now # <<>>
                             /\ Validate(OwnOptions(v), Tok(p).claims, loc[p].now[1]) = {})
                      /\ ~Accepted(p) => (loc[p].claims = <<>> /\ loc[p].err # NoErr))
    /\ [][\A w \in Verifiers :
            ~ActsOn(w) => UNCHANGED <<Keys[w], parseOptions[w], mu[w], hist[w]>>]_vars

\* C16 witness: two verifiers hold different options, one of them created with
\* a time source; VerifyToken of the same token has been rejected as expired
\* by that one and accepted by the other.
C16_Witness ==
    \E p, q \in Procs :
      /\ VerifyDone(p) /\ VerifyDone(q) /\ call[p].v # call[q].v
      /\ Tok(p) = Tok(q)
      /\ parseOptions[call[p].v].timeFunc # <<>>
      /\ parseOptions[call[q].v].timeFunc = <<>>
      /\ Rejected(p, "ErrTokenInvalidClaims")
      /\ Accepted(q)

\* The step in which a SetKeys call on v whose key set parsed assigns it.
SuccessfulSetKeysStep(v) ==
    \E p \in Procs :
      /\ call[p].op = "SetKeys" /\ call[p].v = v
      /\ BadEntries(call[p].arg) = {}
      /\ pc[p] = "sk_assign" /\ pc'[p] = "done"
      /\ loc'[p].err = NoErr
      /\ Keys'[v] = InstalledKeys(call[p].arg)

\* C17: once NewVerifier has returned a verifier, no step changes its parse
\* options, and its key set changes only in the assignment of a SetKeys call
\* whose key set parsed, to that set: the steps of lookups, of VerifyToken, of
\* the middleware and of a failing SetKeys leave it as it is.
C17_OnlySetKeysChangesKeys ==
    [][\A v \in constructed :
         /\ parseOptions'[v] = parseOptions[v]
         /\ v \in constructed'
         /\ Keys'[v] # Keys[v] => SuccessfulSetKeysStep(v)]_vars

\* C17 witness: a SetKeys has replaced the key set the verifier was created
\* with, and a SetKeys with a malformed entry has failed after it, leaving
\* the replaced set in place.
C17_Witness ==
    \E p, q \in Procs :
      /\ p # q /\ call[p].v = call[q].v
      /\ call[p].op = "SetKeys" /\ pc[p] = "done" /\ loc[p].err = NoErr
      /\ call[q].op = "SetKeys" /\ pc[q] = "done" /\ loc[q].err # NoErr
      /\ Keys[call[p].v] = InstalledKeys(call[p].arg)
      /\ Keys[call[p].v] # InstalledKeys(hist[call[p].v][1])
      /\ \E k \in DOMAIN call[q].arg \ BadEntries(call[q].arg) :
            k \notin DOMAIN Keys[call[p].v]
              \/ Keys[call[p].v][k] # ParseRSAPublicKeyFromPEM(call[q].arg[k]).key

AtLock(p) == pc[p] \in {"kf_lock", "sk_lock"}
HoldsLock(p) == pc[p] # "idle" /\ call[p].v \in Verifiers /\ mu[call[p].v] = p

\* C18: a goroutine holds the mutex only inside the key function's body or
\* SetKeys' assignment, never after a return (with a key, with one of the
\* three lookup errors, or from SetKeys); while a call is in progress some
\* goroutine can take a step; and under fair scheduling every call waiting at
\* a Lock acquires the mutex and every call returns.
C18_LockReleasedCallsReturn ==
    /\ [](\A p \in Procs : HoldsLock(p) => pc[p] \in {"kf_body", "sk_assign"})
    /\ []((\E p \in Procs : pc[p] # "idle") => \E p \in Procs : ENABLED Step(p))
    /\ \A p \in Procs : AtLock(p) ~> HoldsLock(p)
    /\ \A p \in Procs : (pc[p] # "idle") ~> (pc[p] = "idle")

\* C18 witness: a goroutine waits at the Lock while another, in the key
\* function's body for a token without a string kid, holds the mutex and is
\* about to return an error.
C18_Witness ==
    \E p, q \in Procs :
      /\ p # q /\ AtLock(p) /\ call[q].v = call[p].v
      /\ pc[q] = "kf_body" /\ HoldsLock(q)
      /\ Tok(q).kid.typ # "string"

=============================================================================
